---- MODULE Spec2Model ----
(***************************************************************************)
(* Model of the wiki database cog (cogs/db.py): the pages and revisions    *)
(* tables with the transactions of create_page / revise_page / rename_page *)
(* under PostgreSQL READ COMMITTED, and the role_permissions /             *)
(* page_permissions tables with permissions_for and the overwrite          *)
(* operations.                                                             *)
(***************************************************************************)
EXTENDS Integers, Sequences, FiniteSets, TLC

VARIABLES
    pages,              \* committed rows of table pages
    revisions,          \* committed rows of table revisions
    page_id_seq,        \* last value handed out for pages.page_id
    revision_id_seq,    \* last value handed out for revisions.revision_id
    pc,                 \* per caller: where its create_page / revise_page call stands
    call,               \* per caller: arguments and uncommitted writes of its call
    result,             \* how the call that returned last ended
    role_permissions,   \* rows of table role_permissions
    page_permissions,   \* rows of table page_permissions
    perm_ret            \* the value or error of the last permission call (none for None)

vars == <<pages, revisions, page_id_seq, revision_id_seq, pc, call, result,
          role_permissions, page_permissions, perm_ret>>

page_vars == <<pages, revisions, page_id_seq, revision_id_seq, pc, call, result>>
perm_vars == <<role_permissions, page_permissions, perm_ret>>

-----------------------------------------------------------------------------
(* Bounds and input sets *)

MaxPageId == 2
MaxRevisionId == 3

\* concurrent callers, and the one caller of the sequential specification
Procs == {1, 2}
Caller == {1}
Guilds == {1, 2}
Titles == {"a", "A", "b"}
\* the (guild, title) pairs callers pass: within one guild, and across guilds
Keys == {<<1, "a">>, <<1, "A">>, <<1, "b">>}
GuildKeys == Guilds \X Titles
Contents == {"x", "y"}
Authors == {7}

\* SQL NULL / Python None
NULL == -1

\* LOWER(title)
LOWER(t) == CASE t = "A" -> "a" [] t = "B" -> "b" [] OTHER -> t

-----------------------------------------------------------------------------
(* Rows *)

NoCall == [content |-> "", author_id |-> NULL, page_id |-> NULL,
           tx_pages |-> {}, tx_revisions |-> {}, raced |-> {}]

\* a permission call that returned None
NoReturn == [op |-> "none", error |-> "none", value |-> NULL]

\* INSERT INTO pages (title, guild, latest_revision) VALUES ($1, $2, 0)
InsertPage(title, guild_id, page_id) ==
    [page_id |-> page_id, guild |-> guild_id, title |-> title, latest_revision |-> 0]

\* INSERT INTO revisions (page_id, author, content) VALUES ($1, $2, $3) RETURNING revision_id
InsertRevision(page_id, author_id, content, revision_id) ==
    [revision_id |-> revision_id, page_id |-> page_id, author |-> author_id,
     content |-> content]

\* UPDATE pages SET latest_revision = (SELECT * FROM revision) WHERE page_id = $1
UpdateLatest(row, revision_id) == [row EXCEPT !.latest_revision = revision_id]

\* (variant: the WHERE clause without its guild condition)
TitleMatchAnyGuild(row, guild_id, title) ==
    LOWER(row.title) = LOWER(title)

\* WHERE guild = $1 AND LOWER(title) = LOWER($2)
TitleMatch(row, guild_id, title) ==
    row.guild = guild_id /\ LOWER(row.title) = LOWER(title)

\* SELECT page_id FROM pages WHERE LOWER(title) = LOWER($1) AND guild = $2
SelectPageId(pgs, guild_id, title) ==
    LET hit == {r \in pgs : TitleMatch(r, guild_id, title)}
    IN  IF hit = {} THEN NULL ELSE (CHOOSE r \in hit : TRUE).page_id

-----------------------------------------------------------------------------
(* The store's constraint and locking machinery *)

\* the unique index on (guild, LOWER(title)): a committed row other than
\* `self` already holds the key
UniqueViolation(guild_id, title, self) ==
    \E r \in pages : TitleMatch(r, guild_id, title) /\ r.page_id # self

\* an uncommitted insert of another transaction holds the key: the statement
\* waits until that transaction ends
UniqueWait(p, guild_id, title) ==
    \E q \in Procs \ {p} : \E r \in call[q].tx_pages :
        /\ TitleMatch(r, guild_id, title)
        /\ \A c \in pages : c.page_id # r.page_id

\* another transaction has updated the row of page_id and not yet committed:
\* an UPDATE of that row waits
RowLocked(p, page_id) ==
    \E q \in Procs \ {p} : \E r \in call[q].tx_pages :
        /\ r.page_id = page_id
        /\ \E c \in pages : c.page_id = page_id

\* COMMIT: the transaction's row versions replace the committed ones
CommitPages(p) ==
    {r \in pages : \A w \in call[p].tx_pages : w.page_id # r.page_id}
        \cup call[p].tx_pages

\* (variant: the new revision replaces the revisions the page had)
CommitRevisionsReplacing(p) ==
    {r \in revisions : \A w \in call[p].tx_revisions : w.page_id # r.page_id}
        \cup call[p].tx_revisions

CommitRevisions(p) == revisions \cup call[p].tx_revisions

-----------------------------------------------------------------------------
(* Queries, over the committed tables pgs and revs *)

\* get_page: pages INNER JOIN revisions ON latest_revision = revision_id
\* WHERE guild = $1 AND LOWER(title) = LOWER($2)
get_page_rows(pgs, revs, guild_id, title) ==
    {row \in pgs \X revs :
        /\ row[1].latest_revision = row[2].revision_id
        /\ TitleMatch(row[1], guild_id, title)}

\* get_page: the content of the row, or PageNotFoundError when row is None
get_page(pgs, revs, guild_id, title) ==
    LET rows == get_page_rows(pgs, revs, guild_id, title)
    IN  IF rows = {} THEN "PageNotFoundError"
        ELSE (CHOOSE row \in rows : TRUE)[2].content

\* (variant: ORDER BY revision_id ASC)
RECURSIVE OrderByRevisionIdAsc(_)
OrderByRevisionIdAsc(rows) ==
    IF rows = {} THEN <<>>
    ELSE LET low == CHOOSE r \in rows : \A o \in rows : r.revision_id <= o.revision_id
         IN  <<low>> \o OrderByRevisionIdAsc(rows \ {low})

\* ORDER BY revision_id DESC
RECURSIVE OrderByRevisionIdDesc(_)
OrderByRevisionIdDesc(rows) ==
    IF rows = {} THEN <<>>
    ELSE LET top == CHOOSE r \in rows : \A o \in rows : o.revision_id <= r.revision_id
         IN  <<top>> \o OrderByRevisionIdDesc(rows \ {top})

\* get_page_revisions: pages INNER JOIN revisions USING (page_id)
get_page_revisions(pgs, revs, guild_id, title) ==
    OrderByRevisionIdDesc(
        {rv \in revs : \E pg \in pgs :
            pg.page_id = rv.page_id /\ TitleMatch(pg, guild_id, title)})

\* the position of LOWER(title) in the collation
TitleOrd(t) == CASE LOWER(t) = "a" -> 1 [] LOWER(t) = "b" -> 2 [] OTHER -> 3

\* ORDER BY LOWER(title) ASC
RECURSIVE OrderByLowerTitle(_)
OrderByLowerTitle(rows) ==
    IF rows = {} THEN <<>>
    ELSE LET top == CHOOSE r \in rows :
                      \A o \in rows : TitleOrd(r[1].title) <= TitleOrd(o[1].title)
         IN  <<top>> \o OrderByLowerTitle(rows \ {top})

\* get_all_pages: pages INNER JOIN revisions ON latest_revision = revision_id
\* WHERE guild = $1
get_all_pages(pgs, revs, guild_id) ==
    OrderByLowerTitle(
        {row \in pgs \X revs :
            /\ row[1].latest_revision = row[2].revision_id
            /\ row[1].guild = guild_id})

\* (variant: the UPDATE of the WITH statement matches no row, so the pointer
\* is left as it was)
_create_revision_no_repoint(c, visible) ==
    [c EXCEPT !.tx_revisions = {InsertRevision(c.page_id, c.author_id, c.content,
                                               revision_id_seq + 1)},
              !.tx_pages = visible]

\* _create_revision: the INSERT draws the next revision id, and the UPDATE
\* repoints the rows of `visible` (the versions of the page's row the statement
\* can write at that moment) to it
_create_revision(c, visible) ==
    [c EXCEPT !.tx_revisions = {InsertRevision(c.page_id, c.author_id, c.content,
                                               revision_id_seq + 1)},
              !.tx_pages = {UpdateLatest(r, revision_id_seq + 1) : r \in visible}]

-----------------------------------------------------------------------------
(* create_page *)

Return(op, r) == result' = [op |-> op, value |-> r]

\* (variant: the except clause rolls back but raises nothing)
create_page_insert_swallow(p, title, content, guild_id, author_id) ==
    /\ pc[p] = "idle"
    /\ ~UniqueWait(p, guild_id, title)
    /\ IF UniqueViolation(guild_id, title, NULL)
       THEN /\ Return("create_page", "ok")
            /\ UNCHANGED <<pc, call, page_id_seq>>
       ELSE /\ page_id_seq < MaxPageId
            /\ page_id_seq' = page_id_seq + 1
            /\ pc' = [pc EXCEPT ![p] = "create_inserted"]
            /\ call' = [call EXCEPT ![p] =
                 [NoCall EXCEPT !.content = content, !.author_id = author_id,
                                !.page_id = page_id_seq + 1,
                                !.tx_pages = {InsertPage(title, guild_id, page_id_seq + 1)}]]
            /\ UNCHANGED result
    /\ UNCHANGED <<pages, revisions, revision_id_seq>>
    /\ UNCHANGED perm_vars

\* (variant: the INSERT runs on the pool, outside the transaction, and is
\* committed at once)
create_page_insert_autocommit(p, title, content, guild_id, author_id) ==
    /\ pc[p] = "idle"
    /\ ~UniqueWait(p, guild_id, title)
    /\ IF UniqueViolation(guild_id, title, NULL)
       THEN /\ Return("create_page", "PageExistsError")
            /\ UNCHANGED <<pc, call, page_id_seq, pages>>
       ELSE /\ page_id_seq < MaxPageId
            /\ page_id_seq' = page_id_seq + 1
            /\ pc' = [pc EXCEPT ![p] = "create_inserted"]
            /\ pages' = pages \cup {InsertPage(title, guild_id, page_id_seq + 1)}
            /\ call' = [call EXCEPT ![p] =
                 [NoCall EXCEPT !.content = content, !.author_id = author_id,
                                !.page_id = page_id_seq + 1,
                                !.tx_pages = {InsertPage(title, guild_id, page_id_seq + 1)}]]
            /\ UNCHANGED result
    /\ UNCHANGED <<revisions, revision_id_seq>>
    /\ UNCHANGED perm_vars

\* acquire, tr.start(), INSERT INTO pages; UniqueViolationError -> rollback,
\* PageExistsError
create_page_insert(p, title, content, guild_id, author_id) ==
    /\ pc[p] = "idle"
    /\ ~UniqueWait(p, guild_id, title)
    /\ IF UniqueViolation(guild_id, title, NULL)
       THEN /\ Return("create_page", "PageExistsError")
            /\ UNCHANGED <<pc, call, page_id_seq>>
       ELSE /\ page_id_seq < MaxPageId
            /\ page_id_seq' = page_id_seq + 1
            /\ pc' = [pc EXCEPT ![p] = "create_inserted"]
            /\ call' = [call EXCEPT ![p] =
                 [NoCall EXCEPT !.content = content, !.author_id = author_id,
                                !.page_id = page_id_seq + 1,
                                !.tx_pages = {InsertPage(title, guild_id, page_id_seq + 1)}]]
            /\ UNCHANGED result
    /\ UNCHANGED <<pages, revisions, revision_id_seq>>
    /\ UNCHANGED perm_vars

\* _create_revision(conn, page_id, content, author_id) on the transaction's own row
create_page_revision(p) ==
    /\ pc[p] = "create_inserted"
    /\ revision_id_seq < MaxRevisionId
    /\ revision_id_seq' = revision_id_seq + 1
    /\ call' = [call EXCEPT ![p] = _create_revision(call[p], call[p].tx_pages)]
    /\ pc' = [pc EXCEPT ![p] = "create_revised"]
    /\ UNCHANGED <<pages, revisions, page_id_seq, result>>
    /\ UNCHANGED perm_vars

\* (variant: the except clause commits what the transaction holds)
create_page_revision_fails_commits(p) ==
    /\ pc[p] = "create_inserted"
    /\ pages' = CommitPages(p)
    /\ pc' = [pc EXCEPT ![p] = "idle"]
    /\ call' = [call EXCEPT ![p] = NoCall]
    /\ Return("create_page", "Error")
    /\ UNCHANGED <<revisions, page_id_seq, revision_id_seq>>
    /\ UNCHANGED perm_vars

\* except: await tr.rollback(); raise
create_page_revision_fails(p) ==
    /\ pc[p] = "create_inserted"
    /\ pc' = [pc EXCEPT ![p] = "idle"]
    /\ call' = [call EXCEPT ![p] = NoCall]
    /\ Return("create_page", "Error")
    /\ UNCHANGED <<pages, revisions, page_id_seq, revision_id_seq>>
    /\ UNCHANGED perm_vars

\* await tr.commit()
create_page_commit(p) ==
    /\ pc[p] = "create_revised"
    /\ pages' = CommitPages(p)
    /\ revisions' = CommitRevisions(p)
    /\ pc' = [pc EXCEPT ![p] = "idle"]
    /\ call' = [call EXCEPT ![p] = NoCall]
    /\ Return("create_page", "ok")
    /\ UNCHANGED <<page_id_seq, revision_id_seq>>
    /\ UNCHANGED perm_vars

-----------------------------------------------------------------------------
(* revise_page *)

\* acquire, BEGIN, SELECT page_id; None -> PageNotFoundError
revise_page_select(p, title, new_content, guild_id, author_id) ==
    /\ pc[p] = "idle"
    /\ IF SelectPageId(pages, guild_id, title) = NULL
       THEN /\ Return("revise_page", "PageNotFoundError")
            /\ UNCHANGED <<pc, call>>
       ELSE /\ pc' = [pc EXCEPT ![p] = "revise_selected"]
            /\ call' = [call EXCEPT ![p] =
                 [NoCall EXCEPT !.content = new_content, !.author_id = author_id,
                                !.page_id = SelectPageId(pages, guild_id, title)]]
            /\ UNCHANGED result
    /\ UNCHANGED <<pages, revisions, page_id_seq, revision_id_seq>>
    /\ UNCHANGED perm_vars

\* _create_revision, the INSERT of the WITH clause: the revision id is drawn
\* before the UPDATE can wait for the row
revise_page_insert(p) ==
    /\ pc[p] = "revise_selected"
    /\ revision_id_seq < MaxRevisionId
    /\ revision_id_seq' = revision_id_seq + 1
    /\ call' = [call EXCEPT ![p] = _create_revision(call[p], {})]
    /\ pc' = [pc EXCEPT ![p] = "revise_inserted"]
    /\ UNCHANGED <<pages, revisions, page_id_seq, result>>
    /\ UNCHANGED perm_vars

\* (variant: the transaction runs REPEATABLE READ, so the UPDATE of a row
\* that changed since the transaction began fails and the call is rolled back)
revise_page_update_repeatable_read(p) ==
    /\ pc[p] = "revise_inserted"
    /\ ~RowLocked(p, call[p].page_id)
    /\ IF call[p].raced # {}
       THEN /\ pc' = [pc EXCEPT ![p] = "idle"]
            /\ call' = [call EXCEPT ![p] = NoCall]
            /\ Return("revise_page", "Error")
       ELSE /\ call' = [call EXCEPT ![p] =
                 [call[p] EXCEPT !.tx_pages =
                    {UpdateLatest(r, (CHOOSE rv \in call[p].tx_revisions : TRUE).revision_id) :
                        r \in {c \in pages : c.page_id = call[p].page_id}}]]
            /\ pc' = [pc EXCEPT ![p] = "revise_updated"]
            /\ UNCHANGED result
    /\ UNCHANGED <<pages, revisions, page_id_seq, revision_id_seq>>
    /\ UNCHANGED perm_vars

\* _create_revision, the UPDATE: waits while another transaction holds the
\* row, then updates the latest committed version of it
revise_page_update(p) ==
    /\ pc[p] = "revise_inserted"
    /\ ~RowLocked(p, call[p].page_id)
    /\ call' = [call EXCEPT ![p] =
         [call[p] EXCEPT !.tx_pages =
            {UpdateLatest(r, (CHOOSE rv \in call[p].tx_revisions : TRUE).revision_id) :
                r \in {c \in pages : c.page_id = call[p].page_id}}]]
    /\ pc' = [pc EXCEPT ![p] = "revise_updated"]
    /\ UNCHANGED <<pages, revisions, page_id_seq, revision_id_seq, result>>
    /\ UNCHANGED perm_vars

\* leaving `async with conn.transaction()`: COMMIT
\* (raced: the revisions other callers committed to the page during this
\* caller's transaction)
revise_page_commit(p) ==
    /\ pc[p] = "revise_updated"
    /\ pages' = CommitPages(p)
    /\ revisions' = CommitRevisions(p)
    /\ pc' = [pc EXCEPT ![p] = "idle"]
    /\ call' = [q \in Procs |->
         IF q = p THEN NoCall
         ELSE IF pc[q] \in {"revise_selected", "revise_inserted"}
                 /\ call[q].page_id = call[p].page_id
              THEN [call[q] EXCEPT !.raced = @ \cup call[p].tx_revisions]
              ELSE call[q]]
    /\ Return("revise_page", "ok")
    /\ UNCHANGED <<page_id_seq, revision_id_seq>>
    /\ UNCHANGED perm_vars

-----------------------------------------------------------------------------
(* rename_page: one autocommitted UPDATE *)

\* (variant: the except clause raises PageNotFoundError)
rename_page_wrong_error(p, guild_id, title, new_title) ==
    LET target == {r \in pages : TitleMatch(r, guild_id, title)}
    IN  /\ pc[p] = "idle"
        /\ \A r \in target : ~RowLocked(p, r.page_id)
        /\ target # {} => ~UniqueWait(p, guild_id, new_title)
        /\ IF target = {}
           THEN /\ Return("rename_page", "PageNotFoundError")
                /\ UNCHANGED pages
           ELSE IF \E r \in target : UniqueViolation(guild_id, new_title, r.page_id)
           THEN /\ Return("rename_page", "PageNotFoundError")
                /\ UNCHANGED pages
           ELSE /\ pages' = (pages \ target)
                        \cup {[r EXCEPT !.title = new_title] : r \in target}
                /\ Return("rename_page", "ok")
        /\ UNCHANGED <<revisions, page_id_seq, revision_id_seq, pc, call>>
        /\ UNCHANGED perm_vars

\* (variant: the UPDATE runs without the unique index)
rename_page_no_unique(p, guild_id, title, new_title) ==
    LET target == {r \in pages : TitleMatch(r, guild_id, title)}
    IN  /\ pc[p] = "idle"
        /\ \A r \in target : ~RowLocked(p, r.page_id)
        /\ IF target = {}
           THEN /\ Return("rename_page", "PageNotFoundError")
                /\ UNCHANGED pages
           ELSE /\ pages' = (pages \ target)
                        \cup {[r EXCEPT !.title = new_title] : r \in target}
                /\ Return("rename_page", "ok")
        /\ UNCHANGED <<revisions, page_id_seq, revision_id_seq, pc, call>>
        /\ UNCHANGED perm_vars

\* (variant: the unique index counts the renamed row's own old key)
rename_page_self_collides(p, guild_id, title, new_title) ==
    LET target == {r \in pages : TitleMatch(r, guild_id, title)}
    IN  /\ pc[p] = "idle"
        /\ \A r \in target : ~RowLocked(p, r.page_id)
        /\ target # {} => ~UniqueWait(p, guild_id, new_title)
        /\ IF target = {}
           THEN /\ Return("rename_page", "PageNotFoundError")
                /\ UNCHANGED pages
           ELSE IF UniqueViolation(guild_id, new_title, NULL)
           THEN /\ Return("rename_page", "PageExistsError")
                /\ UNCHANGED pages
           ELSE /\ pages' = (pages \ target)
                        \cup {[r EXCEPT !.title = new_title] : r \in target}
                /\ Return("rename_page", "ok")
        /\ UNCHANGED <<revisions, page_id_seq, revision_id_seq, pc, call>>
        /\ UNCHANGED perm_vars

rename_page(p, guild_id, title, new_title) ==
    LET target == {r \in pages : TitleMatch(r, guild_id, title)}
    IN  /\ pc[p] = "idle"
        /\ \A r \in target : ~RowLocked(p, r.page_id)
        /\ target # {} => ~UniqueWait(p, guild_id, new_title)
        /\ IF target = {}
           THEN /\ Return("rename_page", "PageNotFoundError")
                /\ UNCHANGED pages
           ELSE IF \E r \in target : UniqueViolation(guild_id, new_title, r.page_id)
           THEN /\ Return("rename_page", "PageExistsError")
                /\ UNCHANGED pages
           ELSE /\ pages' = (pages \ target)
                        \cup {[r EXCEPT !.title = new_title] : r \in target}
                /\ Return("rename_page", "ok")
        /\ UNCHANGED <<revisions, page_id_seq, revision_id_seq, pc, call>>
        /\ UNCHANGED perm_vars

-----------------------------------------------------------------------------

Init ==
    /\ pages = {}
    /\ revisions = {}
    /\ page_id_seq = 0
    /\ revision_id_seq = 0
    /\ pc = [p \in Procs |-> "idle"]
    /\ call = [p \in Procs |-> NoCall]
    /\ result = [op |-> "none", value |-> "none"]
    /\ role_permissions = {}
    /\ page_permissions = {}
    /\ perm_ret = NoReturn

\* the calls of the callers P with (guild, title) arguments drawn from K
PageNext(P, K) ==
    \E p \in P :
        \/ \E k \in K, c \in Contents, a \in Authors :
              create_page_insert(p, k[2], c, k[1], a)
        \/ create_page_revision(p)
        \/ create_page_revision_fails(p)
        \/ create_page_commit(p)
        \/ \E k \in K, c \in Contents, a \in Authors :
              revise_page_select(p, k[2], c, k[1], a)
        \/ revise_page_insert(p)
        \/ revise_page_update(p)
        \/ revise_page_commit(p)
        \/ \E k \in K, nt \in Titles : rename_page(p, k[1], k[2], nt)

\* concurrent callers in one guild
Next == PageNext(Procs, Keys)

Spec == Init /\ [][Next]_vars

\* one caller at a time, across guilds
NextGuilds == PageNext(Caller, GuildKeys)

SpecGuilds == Init /\ [][NextGuilds]_vars

-----------------------------------------------------------------------------
(* Permissions: the flags, and the integer operators of the store *)

\* class Permissions(enum.Flag)
none == 0
view == 1
rename == 2
edit == 4
delete == 8
manage_permissions == 16

RECURSIVE BitAnd(_, _)
BitAnd(a, b) ==
    IF a = 0 \/ b = 0 THEN 0
    ELSE (a % 2) * (b % 2) + 2 * BitAnd(a \div 2, b \div 2)

RECURSIVE BitOr(_, _)
BitOr(a, b) ==
    IF a = 0 THEN b
    ELSE IF b = 0 THEN a
    ELSE (IF a % 2 = 1 \/ b % 2 = 1 THEN 1 ELSE 0) + 2 * BitOr(a \div 2, b \div 2)

\* a & ~b: the bits of a that are not bits of b
RECURSIVE BitAndNot(_, _)
BitAndNot(a, b) ==
    IF a = 0 THEN 0
    ELSE (a % 2) * (1 - (b % 2)) + 2 * BitAndNot(a \div 2, b \div 2)

\* default = view | rename | edit
default == BitOr(BitOr(view, rename), edit)

\* the operators on a NULL operand give NULL
SqlBitOr(a, b) == IF a = NULL \/ b = NULL THEN NULL ELSE BitOr(a, b)
SqlBitAndNot(a, b) == IF a = NULL \/ b = NULL THEN NULL ELSE BitAndNot(a, b)

\* the aggregate bit_or: NULL inputs are skipped, no input gives NULL
RECURSIVE bit_or(_)
bit_or(values) ==
    LET given == values \ {NULL}
    IN  IF given = {} THEN NULL
        ELSE LET v == CHOOSE x \in given : TRUE
             IN  IF given = {v} THEN v ELSE BitOr(v, bit_or(given \ {v}))

-----------------------------------------------------------------------------
(* permissions_for *)

\* FROM role_permissions LEFT JOIN page_permissions USING (role)
LeftJoinPagePermissions(rp, pp) ==
    {[role |-> j[1].role, permissions |-> j[1].permissions, page_id |-> j[2].page_id,
      allow |-> j[2].allow, deny |-> j[2].deny] :
        j \in {x \in rp \X pp : x[1].role = x[2].role}}
    \cup
    {[role |-> r.role, permissions |-> r.permissions, page_id |-> NULL,
      allow |-> NULL, deny |-> NULL] : r \in {x \in rp : \A o \in pp : o.role # x.role}}

\* WHERE role = ANY ($3) AND page_id = (SELECT * FROM page_id) OR page_id IS NULL
\* (AND binds tighter than OR; a comparison with NULL is not true)
permissions_for_where(row, roles, page_id) ==
    \/ /\ row.role \in roles
       /\ row.page_id # NULL /\ page_id # NULL /\ row.page_id = page_id
    \/ row.page_id = NULL

\* SELECT bit_or(permissions) | bit_or(allow) & ~bit_or(deny)
\* (|, & and ~ have one precedence in the store and associate to the left)
permissions_for_select(rows) ==
    SqlBitAndNot(SqlBitOr(bit_or({r.permissions : r \in rows}),
                          bit_or({r.allow : r \in rows})),
                 bit_or({r.deny : r \in rows}))

\* roles = list(map(operator.attrgetter('id'), member.roles)) + [member.guild.id]
member_roles(member) == member.roles \cup {member.guild}

\* (variant: a missing result read as no permissions)
permissions_for_none(rp, pp, pgs, member, title) ==
    LET page_id == SelectPageId(pgs, member.guild, title)
        rows == {row \in LeftJoinPagePermissions(rp, pp) :
                    permissions_for_where(row, member_roles(member), page_id)}
        perms == permissions_for_select(rows)
    IN  IF perms = NULL THEN none ELSE perms

\* permissions_for(member, title) over the tables rp, pp and pgs
permissions_for(rp, pp, pgs, member, title) ==
    LET page_id == SelectPageId(pgs, member.guild, title)
        rows == {row \in LeftJoinPagePermissions(rp, pp) :
                    permissions_for_where(row, member_roles(member), page_id)}
        perms == permissions_for_select(rows)
    IN  IF perms = NULL THEN default ELSE perms

\* get_role_permissions(role_id)
get_role_permissions(rp, role_id) ==
    LET perms == bit_or({r.permissions : r \in {x \in rp : x.role = role_id}})
    IN  IF perms = NULL THEN default ELSE perms

-----------------------------------------------------------------------------
(* Permission calls *)

PermReturn(op, error, value) ==
    perm_ret' = [op |-> op, error |-> error, value |-> value]

\* the call returns None
PermReturnNone == perm_ret' = NoReturn

\* permissions_for, called
permissions_for_call(member, title) ==
    /\ PermReturn("permissions_for", "none",
                  permissions_for(role_permissions, page_permissions, pages, member, title))
    /\ UNCHANGED <<role_permissions, page_permissions>>
    /\ UNCHANGED page_vars

\* INSERT ... ON CONFLICT (role) DO UPDATE SET permissions = EXCLUDED.permissions
set_role_permissions(role_id, permissions) ==
    /\ role_permissions' = {r \in role_permissions : r.role # role_id}
            \cup {[role |-> role_id, permissions |-> permissions]}
    /\ PermReturnNone
    /\ UNCHANGED page_permissions
    /\ UNCHANGED page_vars

\* (variant: ON CONFLICT ORs in $3, the new permissions with the default)
allow_role_permissions_or_default(role_id, new_perms) ==
    /\ role_permissions' =
         IF \E r \in role_permissions : r.role = role_id
         THEN {IF r.role = role_id
               THEN [r EXCEPT !.permissions =
                        BitOr(r.permissions, BitOr(new_perms, default))]
               ELSE r : r \in role_permissions}
         ELSE role_permissions
                \cup {[role |-> role_id, permissions |-> BitOr(new_perms, default)]}
    /\ PermReturnNone
    /\ UNCHANGED page_permissions
    /\ UNCHANGED page_vars

\* INSERT ... VALUES ($1, $3) ON CONFLICT (role) DO UPDATE SET
\* permissions = role_permissions.permissions | $2
allow_role_permissions(role_id, new_perms) ==
    /\ role_permissions' =
         IF \E r \in role_permissions : r.role = role_id
         THEN {IF r.role = role_id
               THEN [r EXCEPT !.permissions = BitOr(r.permissions, new_perms)]
               ELSE r : r \in role_permissions}
         ELSE role_permissions
                \cup {[role |-> role_id, permissions |-> BitOr(new_perms, default)]}
    /\ PermReturnNone
    /\ UNCHANGED page_permissions
    /\ UNCHANGED page_vars

\* (variant: SET permissions = permissions # $2, which toggles the bits)
deny_role_permissions_toggle(role_id, perms) ==
    /\ role_permissions' =
         {IF r.role = role_id
          THEN [r EXCEPT !.permissions =
                   BitAndNot(BitOr(r.permissions, perms), BitAnd(r.permissions, perms))]
          ELSE r : r \in role_permissions}
    /\ PermReturnNone
    /\ UNCHANGED page_permissions
    /\ UNCHANGED page_vars

\* UPDATE role_permissions SET permissions = permissions & ~$2 WHERE role = $1
deny_role_permissions(role_id, perms) ==
    /\ role_permissions' =
         {IF r.role = role_id
          THEN [r EXCEPT !.permissions = BitAndNot(r.permissions, perms)]
          ELSE r : r \in role_permissions}
    /\ PermReturnNone
    /\ UNCHANGED page_permissions
    /\ UNCHANGED page_vars

\* page_permissions(page_id, role) is the primary key: a row with no page_id
\* is refused
page_permissions_accepts(page_id) == page_id # NULL

\* INSERT ... ON CONFLICT (page_id, role) DO UPDATE SET allow = EXCLUDED.allow,
\* deny = EXCLUDED.deny
set_page_overwrites(guild_id, title, role_id, allow_perms, deny_perms) ==
    LET page_id == SelectPageId(pages, guild_id, title)
    IN  /\ IF page_permissions_accepts(page_id)
           THEN /\ page_permissions' =
                     {o \in page_permissions : ~(o.page_id = page_id /\ o.role = role_id)}
                     \cup {[page_id |-> page_id, role |-> role_id,
                            allow |-> allow_perms, deny |-> deny_perms]}
                /\ PermReturnNone
           ELSE /\ UNCHANGED page_permissions
                /\ PermReturn("set_page_overwrites", "NotNullViolationError", NULL)
        /\ UNCHANGED role_permissions
        /\ UNCHANGED page_vars

\* the statement names $1 and $2 and execute() is given no argument: the
\* call raises and deletes nothing
unset_page_overwrites(guild_id, title, role_id) ==
    /\ PermReturn("unset_page_overwrites", "PostgresError", NULL)
    /\ UNCHANGED <<role_permissions, page_permissions>>
    /\ UNCHANGED page_vars

\* INSERT ... ON CONFLICT (page_id, role) DO UPDATE SET
\* allow = page_permissions.allow | EXCLUDED.allow,
\* deny = page_permissions.deny | EXCLUDED.deny
add_page_permissions(guild_id, title, role_id, new_allow_perms, new_deny_perms) ==
    LET page_id == SelectPageId(pages, guild_id, title)
    IN  /\ IF page_permissions_accepts(page_id)
           THEN /\ page_permissions' =
                     IF \E o \in page_permissions : o.page_id = page_id /\ o.role = role_id
                     THEN {IF o.page_id = page_id /\ o.role = role_id
                           THEN [o EXCEPT !.allow = BitOr(o.allow, new_allow_perms),
                                          !.deny = BitOr(o.deny, new_deny_perms)]
                           ELSE o : o \in page_permissions}
                     ELSE page_permissions
                            \cup {[page_id |-> page_id, role |-> role_id,
                                   allow |-> new_allow_perms, deny |-> new_deny_perms]}
                /\ PermReturnNone
           ELSE /\ UNCHANGED page_permissions
                /\ PermReturn("add_page_permissions", "NotNullViolationError", NULL)
        /\ UNCHANGED role_permissions
        /\ UNCHANGED page_vars

\* UPDATE page_permissions SET allow = allow & ~$3, deny = deny & ~$3
\* (the statement has no WHERE clause: page_id and role_id select nothing)
unset_page_permissions(guild_id, title, role_id, perms) ==
    /\ page_permissions' =
         {[o EXCEPT !.allow = BitAndNot(o.allow, perms),
                    !.deny = BitAndNot(o.deny, perms)] : o \in page_permissions}
    /\ PermReturnNone
    /\ UNCHANGED role_permissions
    /\ UNCHANGED page_vars

-----------------------------------------------------------------------------
(* The permission store on a guild of two pages *)

\* the role ids of guild 1: its everyone role (the guild id) and one more
Roles == {1, 11}
\* members of guild 1: one holding role 11, one holding the everyone role only
Members == {[roles |-> {1, 11}, guild |-> 1], [roles |-> {1}, guild |-> 1]}
\* titles passed: of page 1 in another case, of page 2, of no page
PermTitles == {"A", "b", "c"}
\* masks passed
RoleMasks == {view, BitOr(view, edit)}
AllowMasks == {none, delete}
DenyMasks == {none, edit}
\* the role whose base mask is also widened and narrowed
GrantRoles == {11}
\* the (title, role) pairs overwrite calls are made for
OverwriteKeys == {<<"A", 1>>, <<"A", 11>>, <<"b", 11>>, <<"c", 11>>}

PermInit ==
    /\ pages = {[page_id |-> 1, guild |-> 1, title |-> "a", latest_revision |-> 1],
                [page_id |-> 2, guild |-> 1, title |-> "b", latest_revision |-> 2]}
    /\ revisions = {[revision_id |-> 1, page_id |-> 1, author |-> 7, content |-> "x"],
                    [revision_id |-> 2, page_id |-> 2, author |-> 7, content |-> "y"]}
    /\ page_id_seq = 2
    /\ revision_id_seq = 2
    /\ pc = [p \in Procs |-> "idle"]
    /\ call = [p \in Procs |-> NoCall]
    /\ result = [op |-> "create_page", value |-> "ok"]
    /\ role_permissions = {}
    /\ page_permissions = {}
    /\ perm_ret = NoReturn

PermNext ==
    \/ \E m \in Members, t \in PermTitles : permissions_for_call(m, t)
    \/ \E r \in Roles, mask \in RoleMasks : set_role_permissions(r, mask)
    \/ \E r \in GrantRoles : allow_role_permissions(r, delete)
    \/ \E r \in GrantRoles : deny_role_permissions(r, edit)
    \/ \E k \in OverwriteKeys, a \in AllowMasks, d \in DenyMasks :
          set_page_overwrites(1, k[1], k[2], a, d)
    \/ \E k \in OverwriteKeys : unset_page_overwrites(1, k[1], k[2])
    \/ \E k \in OverwriteKeys :
          \/ add_page_permissions(1, k[1], k[2], delete, none)
          \/ add_page_permissions(1, k[1], k[2], none, edit)
    \/ \E k \in OverwriteKeys : unset_page_permissions(1, k[1], k[2], edit)

SpecPerm == PermInit /\ [][PermNext]_vars

-----------------------------------------------------------------------------
(* Properties of the page store *)

Range(seq) == {seq[i] : i \in 1..Len(seq)}

\* C1: when create_page commits, get_page of the created (guild, title) returns
\* the content passed to create_page and get_page_revisions yields exactly
\* one row.
C1_CreateThenGet ==
    [][\A p \in Procs : create_page_commit(p) =>
          \A w \in call[p].tx_pages :
             /\ result' = [op |-> "create_page", value |-> "ok"]
             /\ get_page(pages', revisions', w.guild, w.title) = call[p].content
             /\ Len(get_page_revisions(pages', revisions', w.guild, w.title)) = 1]_vars

\* a create_page has just succeeded in guild 2 for a title that guild 1 holds too
C1_Witness ==
    /\ result = [op |-> "create_page", value |-> "ok"]
    /\ \E pg \in pages, other \in pages :
          /\ pg.guild = 2 /\ other.guild = 1 /\ LOWER(pg.title) = LOWER(other.title)
          /\ Len(get_page_revisions(pages, revisions, pg.guild, pg.title)) = 1
          /\ get_page(pages, revisions, pg.guild, pg.title) \in Contents

\* C2: when revise_page commits, get_page of the page returns new_content;
\* get_page_revisions yields one row more than before, every earlier row and
\* the new one, in strictly descending revision_id order; and the new
\* revision is the first row unless another caller committed a revision of
\* the page during the call.
C2_ReviseThenGet ==
    [][\A p \in Procs : revise_page_commit(p) =>
          \A w \in call[p].tx_pages : \A rv \in call[p].tx_revisions :
             LET old == get_page_revisions(pages, revisions, w.guild, w.title)
                 new == get_page_revisions(pages', revisions', w.guild, w.title)
             IN  /\ result' = [op |-> "revise_page", value |-> "ok"]
                 /\ rv.content = call[p].content
                 /\ get_page(pages', revisions', w.guild, w.title) = call[p].content
                 /\ Len(new) = Len(old) + 1
                 /\ Len(old) >= 1
                 /\ Range(new) = Range(old) \cup {rv}
                 /\ \A i \in 1..(Len(new) - 1) :
                       new[i].revision_id > new[i + 1].revision_id
                 /\ call[p].raced = {} => new[1] = rv]_vars

\* a revise_page has just succeeded on a page whose newest revision holds
\* another content than the one before it
C2_Witness ==
    /\ result = [op |-> "revise_page", value |-> "ok"]
    /\ \E pg \in pages :
          LET revs == get_page_revisions(pages, revisions, pg.guild, pg.title)
          IN  /\ Len(revs) >= 2
              /\ revs[1].revision_id = pg.latest_revision
              /\ revs[1].content # revs[2].content

\* C3: create_page with a title that matches, case-insensitively, a page of
\* the same guild returns PageExistsError, leaves pages and revisions as they
\* were and leaves no transaction of the caller open.
C3_CreateExisting ==
    [][\A p \in Caller, k \in GuildKeys, c \in Contents, a \in Authors :
          (/\ pc[p] = "idle"
           /\ \E r \in pages : TitleMatch(r, k[1], k[2])
           /\ create_page_insert(p, k[2], c, k[1], a))
          => /\ result' = [op |-> "create_page", value |-> "PageExistsError"]
             /\ pages' = pages
             /\ revisions' = revisions
             /\ pc'[p] = "idle"
             /\ call'[p] = NoCall]_vars

\* a create_page has just failed with PageExistsError on a page whose title is
\* spelled in the other case
C3_Witness ==
    /\ result = [op |-> "create_page", value |-> "PageExistsError"]
    /\ \E r \in pages : r.title = "A"
    /\ \A r \in pages : LOWER(r.title) = "a"

\* C4: rename_page(old, new) where new matches, case-insensitively, the title
\* of another page of the guild returns PageExistsError and changes no row of
\* pages.
C4_RenameCollision ==
    [][\A p \in Caller, k \in GuildKeys :
          LET target == {r \in pages : TitleMatch(r, k[1], k[2])}
          IN  (pc[p] = "idle" /\ target # {}) =>
                \A nt \in Titles :
                   (/\ \E o \in pages \ target : TitleMatch(o, k[1], nt)
                    /\ rename_page(p, k[1], k[2], nt))
                   => /\ result' = [op |-> "rename_page", value |-> "PageExistsError"]
                      /\ pages' = pages]_vars

\* a rename_page has just failed with PageExistsError in a guild of two pages
C4_Witness ==
    /\ result = [op |-> "rename_page", value |-> "PageExistsError"]
    /\ \E r \in pages, o \in pages : r.guild = o.guild /\ r.page_id # o.page_id

\* C5: in every committed state each page's latest_revision is the id of a
\* revision of that page (never the placeholder 0), so get_page finds every
\* page and get_all_pages lists every page of a guild.
C5_PointerValid ==
    /\ \A pg \in pages :
          /\ pg.latest_revision # 0
          /\ \E rv \in revisions :
                rv.revision_id = pg.latest_revision /\ rv.page_id = pg.page_id
          /\ get_page(pages, revisions, pg.guild, pg.title) # "PageNotFoundError"
    /\ \A g \in Guilds :
          Len(get_all_pages(pages, revisions, g))
              = Cardinality({pg \in pages : pg.guild = g})

\* a create_page holding the placeholder row and a revise_page holding an
\* unpublished revision are in progress at once
C5_Witness ==
    \E p \in Procs, q \in Procs :
        /\ pc[p] = "create_inserted"
        /\ \E w \in call[p].tx_pages : w.latest_revision = 0
        /\ pc[q] = "revise_updated"
        /\ pages # {}

\* C6: a revise_page that has resolved its page ends only by committing with
\* its revision stored; and when it commits after other callers committed
\* revisions of the same page during its transaction, all of those revisions
\* and its own are rows of get_page_revisions and the page's latest_revision
\* is one of them.
C6_ConcurrentRevise ==
    [][\A p \in Procs :
          /\ (pc[p] \in {"revise_selected", "revise_inserted", "revise_updated"}
              /\ pc'[p] = "idle")
             => /\ result' = [op |-> "revise_page", value |-> "ok"]
                /\ call[p].tx_revisions # {}
                /\ call[p].tx_revisions \subseteq revisions'
          /\ (revise_page_commit(p) /\ call[p].raced # {})
             => \A w \in call[p].tx_pages :
                   LET both == call[p].raced \cup call[p].tx_revisions
                   IN  /\ both \subseteq
                            Range(get_page_revisions(pages', revisions', w.guild, w.title))
                       /\ \E pg \in pages' :
                             /\ pg.page_id = w.page_id
                             /\ pg.latest_revision \in {rv.revision_id : rv \in both}
                       /\ get_page(pages', revisions', w.guild, w.title)
                             \in {rv.content : rv \in both}]_vars

\* two revise_page calls raced and the one that drew the lower revision id
\* committed last: the current revision is not the one with the greatest id
C6_Witness ==
    /\ result = [op |-> "revise_page", value |-> "ok"]
    /\ \E pg \in pages, rv \in revisions :
          /\ rv.page_id = pg.page_id
          /\ rv.revision_id > pg.latest_revision
          /\ Cardinality({r \in revisions : r.page_id = pg.page_id}) >= 3

-----------------------------------------------------------------------------
(* Properties of permissions_for *)

\* the terms of the resolution as the specification defines them
MaskOf(values) == IF bit_or(values) = NULL THEN 0 ELSE bit_or(values)

StatedBase(member) ==
    MaskOf({r.permissions : r \in {x \in role_permissions : x.role \in member_roles(member)}})

StatedOverwrites(member, title) ==
    {o \in page_permissions :
        /\ o.role \in member_roles(member)
        /\ SelectPageId(pages, member.guild, title) # NULL
        /\ o.page_id = SelectPageId(pages, member.guild, title)}

StatedAllow(member, title) == MaskOf({o.allow : o \in StatedOverwrites(member, title)})

StatedDeny(member, title) == MaskOf({o.deny : o \in StatedOverwrites(member, title)})

Resolved(member, title) ==
    permissions_for(role_permissions, page_permissions, pages, member, title)

\* the scenario of the specification: role 11 with base view|edit and, on
\* page 1, allow delete and deny edit; no other row
Scenario ==
    /\ role_permissions = {[role |-> 11, permissions |-> BitOr(view, edit)]}
    /\ page_permissions = {[page_id |-> 1, role |-> 11, allow |-> delete, deny |-> edit]}

HoldsOnly11 == [roles |-> {1, 11}, guild |-> 1]

\* C7 as stated: with role_permissions rows present, permissions_for returns
\* Base | (Allow & ~Deny) for every member and title, and in the scenario the
\* member holding only role 11 gets {view, edit, delete}.
C7_Stated ==
    /\ role_permissions # {} =>
          \A m \in Members, t \in PermTitles :
             Resolved(m, t)
                = BitOr(StatedBase(m), BitAndNot(StatedAllow(m, t), StatedDeny(m, t)))
    /\ Scenario => Resolved(HoldsOnly11, "A") = BitOr(BitOr(view, edit), delete)

\* permissions_for returns {view, rename, edit} to a member of roles 1 and 11
\* when role 1 has base {view} and role 11 is allowed delete on page 1: the
\* stated formula gives {view, delete}
C7_Witness ==
    /\ role_permissions = {[role |-> 1, permissions |-> view]}
    /\ page_permissions = {[page_id |-> 1, role |-> 11, allow |-> delete, deny |-> none]}
    /\ Resolved(HoldsOnly11, "A") = 7
    /\ BitOr(StatedBase(HoldsOnly11),
             BitAndNot(StatedAllow(HoldsOnly11, "A"), StatedDeny(HoldsOnly11, "A"))) = 9
    /\ perm_ret = [op |-> "permissions_for", error |-> "none", value |-> 7]

\* C8: with no role_permissions and no page_permissions row, permissions_for
\* returns {view, rename, edit} for every member and title, also for a
\* title of no page.
C8_DefaultWithoutRows ==
    (role_permissions = {} /\ page_permissions = {}) =>
        /\ \A m \in Members, t \in PermTitles :
              Resolved(m, t) = BitOr(BitOr(view, rename), edit)
        /\ perm_ret.op = "permissions_for" => perm_ret.value = 7

\* permissions_for has just returned {view, rename, edit} from empty tables
C8_Witness ==
    /\ role_permissions = {} /\ page_permissions = {}
    /\ perm_ret = [op |-> "permissions_for", error |-> "none", value |-> 7]

\* C9 as stated: when a role of the member has a role_permissions row and the
\* page has no overwrite for any role of the member, permissions_for returns
\* the OR of the base masks of the member's roles.
C9_Stated ==
    \A m \in Members, t \in PermTitles :
        (/\ \E r \in role_permissions : r.role \in member_roles(m)
         /\ StatedOverwrites(m, t) = {})
        => Resolved(m, t) = StatedBase(m)

\* permissions_for returns {view, rename, edit} to a member of role 11 whose
\* base is {view}, with no overwrite at all
C9_Witness ==
    /\ role_permissions = {[role |-> 11, permissions |-> view]}
    /\ page_permissions = {}
    /\ StatedBase(HoldsOnly11) = view
    /\ Resolved(HoldsOnly11, "A") = 7
    /\ perm_ret = [op |-> "permissions_for", error |-> "none", value |-> 7]

\* C10 as stated: permissions_for gives the same result on the tables with the
\* rows of the roles the member does not hold removed.
C10_Stated ==
    \A m \in Members, t \in PermTitles :
        Resolved(m, t)
          = permissions_for({r \in role_permissions : r.role \in member_roles(m)},
                            {o \in page_permissions : o.role \in member_roles(m)},
                            pages, m, t)
HoldsOnlyEveryone == [roles |-> {1}, guild |-> 1]

\* the member holding only role 1 (base {view}, allowed delete on page 1) is
\* given edit from the base mask of role 11, which the member does not hold
C10_Witness ==
    /\ role_permissions = {[role |-> 1, permissions |-> view],
                           [role |-> 11, permissions |-> BitOr(view, edit)]}
    /\ page_permissions = {[page_id |-> 1, role |-> 1, allow |-> delete, deny |-> none]}
    /\ Resolved(HoldsOnlyEveryone, "A") = 13
    /\ permissions_for({r \in role_permissions : r.role = 1}, page_permissions,
                       pages, HoldsOnlyEveryone, "A") = 9
    /\ perm_ret = [op |-> "permissions_for", error |-> "none", value |-> 13]

\* C11 as stated: set_page_overwrites or add_page_permissions for (page Q,
\* role R) leaves permissions_for(member, P) as it was for every member and
\* every other page P.
C11_Stated ==
    [][\A k \in OverwriteKeys, a \in AllowMasks, d \in DenyMasks :
          (\/ set_page_overwrites(1, k[1], k[2], a, d)
           \/ add_page_permissions(1, k[1], k[2], a, d))
          => \A m \in Members, t \in PermTitles :
                (/\ SelectPageId(pages, 1, t) # NULL
                 /\ SelectPageId(pages, 1, t) # SelectPageId(pages, 1, k[1]))
                => permissions_for(role_permissions', page_permissions', pages', m, t)
                      = Resolved(m, t)]_vars

\* role 11 has been given an empty overwrite on page 2, and on page 1 the
\* member of roles 1 and 11 is without edit, the base mask of role 11: without
\* that overwrite the member has {view, edit, delete} on page 1
C11_Witness ==
    /\ role_permissions = {[role |-> 1, permissions |-> view],
                           [role |-> 11, permissions |-> BitOr(view, edit)]}
    /\ page_permissions = {[page_id |-> 1, role |-> 1, allow |-> delete, deny |-> none],
                           [page_id |-> 2, role |-> 11, allow |-> none, deny |-> none]}
    /\ Resolved(HoldsOnly11, "A") = 9
    /\ permissions_for(role_permissions, {o \in page_permissions : o.page_id = 1},
                       pages, HoldsOnly11, "A") = 13

\* C12: in every state reached by interleaved create_page, revise_page and
\* rename_page calls no two pages of a guild have titles equal under LOWER,
\* and a rename_page changes at most one row of pages.
C12_TitlesUnique ==
    /\ [](\A r \in pages, o \in pages :
             (r.guild = o.guild /\ LOWER(r.title) = LOWER(o.title))
             => r.page_id = o.page_id)
    /\ [][\A p \in Procs, k \in Keys, nt \in Titles :
             (pages' # pages /\ rename_page(p, k[1], k[2], nt))
             => Cardinality(pages \ pages') <= 1]_vars

\* a page has just been renamed to another spelling of its own title while
\* another caller's insert of a page is uncommitted
C12_Witness ==
    /\ result = [op |-> "rename_page", value |-> "ok"]
    /\ \E r \in pages : r.title = "A"
    /\ \E p \in Procs : pc[p] = "create_inserted"

\* the revisions inserted so far, committed or in an open transaction
Inserted == revisions \cup UNION {call[p].tx_revisions : p \in Procs}

\* C13: no step deletes a committed revision or changes its page, author or
\* content; a revision becomes committed only as it was inserted; revision
\* ids are unique; and each INSERT gives the new revision an id greater than
\* the id of every revision inserted before, committed or not.
C13_AppendOnly ==
    [][/\ revisions \subseteq revisions'
       /\ revisions' \subseteq Inserted
       /\ \A a \in revisions', b \in revisions' :
             a.revision_id = b.revision_id => a = b
       /\ \A p \in Procs :
             \A rv \in call'[p].tx_revisions \ call[p].tx_revisions :
                \A e \in Inserted : rv.revision_id > e.revision_id]_vars

\* a page of two revisions has been renamed: its history is whole, and a
\* further revision is being inserted
C13_Witness ==
    /\ result = [op |-> "rename_page", value |-> "ok"]
    /\ \E pg \in pages :
          /\ pg.title = "A"
          /\ Cardinality({rv \in revisions : rv.page_id = pg.page_id}) = 2
    /\ \E p \in Procs : pc[p] = "revise_inserted" /\ call[p].tx_revisions # {}

-----------------------------------------------------------------------------
(* Calls that end without committing *)

\* create_page abandoned at `await tr.commit()`: leaving `async with
\* self.bot.pool.acquire()` releases the connection, its transaction
\* uncommitted
create_page_abandoned(p) ==
    /\ pc[p] = "create_revised"
    /\ pc' = [pc EXCEPT ![p] = "idle"]
    /\ call' = [call EXCEPT ![p] = NoCall]
    /\ Return("create_page", "Error")
    /\ UNCHANGED <<pages, revisions, page_id_seq, revision_id_seq>>
    /\ UNCHANGED perm_vars

\* revise_page left by an exception (a failing _create_revision, a
\* cancellation): `async with conn.transaction()` rolls back
revise_page_fails(p) ==
    /\ pc[p] \in {"revise_selected", "revise_inserted", "revise_updated"}
    /\ pc' = [pc EXCEPT ![p] = "idle"]
    /\ call' = [call EXCEPT ![p] = NoCall]
    /\ Return("revise_page", "Error")
    /\ UNCHANGED <<pages, revisions, page_id_seq, revision_id_seq>>
    /\ UNCHANGED perm_vars

\* the titles created and revised by the callers whose calls can fail
FaultKeys == {<<1, "a">>, <<1, "b">>}

\* create_page and revise_page by concurrent callers, each call ending by
\* its commit or without it
NextFaults ==
    \E p \in Procs :
        \/ \E k \in FaultKeys, c \in Contents, a \in Authors :
              create_page_insert(p, k[2], c, k[1], a)
        \/ create_page_revision(p)
        \/ create_page_revision_fails(p)
        \/ create_page_abandoned(p)
        \/ create_page_commit(p)
        \/ \E k \in FaultKeys, c \in Contents, a \in Authors :
              revise_page_select(p, k[2], c, k[1], a)
        \/ revise_page_insert(p)
        \/ revise_page_update(p)
        \/ revise_page_fails(p)
        \/ revise_page_commit(p)

SpecFaults == Init /\ [][NextFaults]_vars

\* C14: a create_page that ends without committing leaves pages and revisions
\* as they were and leaves nothing pending; so does a revise_page that ends
\* without committing; and a page row becomes committed only together with
\* the revision its latest_revision names.
C14_AllOrNothing ==
    [][/\ \A p \in Procs :
             (\/ create_page_revision_fails(p)
              \/ create_page_abandoned(p)
              \/ revise_page_fails(p))
             => /\ pages' = pages
                /\ revisions' = revisions
                /\ call'[p].tx_pages = {} /\ call'[p].tx_revisions = {}
       /\ \A pg \in pages' :
             (\A o \in pages : o.page_id # pg.page_id)
             => \E rv \in revisions' :
                   rv.page_id = pg.page_id /\ rv.revision_id = pg.latest_revision]_vars

\* a revise_page has just ended without committing after its INSERT drew a
\* revision id: the id is spent and pages and revisions hold one revision
\* per page
C14_Witness ==
    /\ result = [op |-> "revise_page", value |-> "Error"]
    /\ pages # {}
    /\ revision_id_seq > Cardinality(revisions)
    /\ \A pg \in pages :
          Cardinality({rv \in revisions : rv.page_id = pg.page_id}) = 1
    /\ \A p \in Procs : pc[p] = "idle"

-----------------------------------------------------------------------------
(* get_individual_revisions *)

\* the longest list of revision ids requested
MaxIds == 3

\* ORDER BY revision_id ASC, over rows of pages INNER JOIN revisions
RECURSIVE SortByRevisionId(_)
SortByRevisionId(rows) ==
    IF rows = {} THEN <<>>
    ELSE LET low == CHOOSE r \in rows :
                      \A o \in rows : r[2].revision_id <= o[2].revision_id
         IN  <<low>> \o SortByRevisionId(rows \ {low})

\* (variant: the row count compared with len(revision_ids))
get_individual_revisions_len(pgs, revs, guild_id, revision_ids) ==
    LET results == SortByRevisionId(
            {row \in pgs \X revs :
                /\ row[1].page_id = row[2].page_id
                /\ row[1].guild = guild_id
                /\ \E i \in 1..Len(revision_ids) : row[2].revision_id = revision_ids[i]})
    IN  IF Len(results) # Len(revision_ids)
        THEN [error |-> "ValueError", rows |-> <<>>]
        ELSE [error |-> "none", rows |-> results]

\* get_individual_revisions(guild_id, revision_ids): the rows, or ValueError
\* when len(results) != len(set(revision_ids))
get_individual_revisions(pgs, revs, guild_id, revision_ids) ==
    LET results == SortByRevisionId(
            {row \in pgs \X revs :
                /\ row[1].page_id = row[2].page_id
                /\ row[1].guild = guild_id
                /\ \E i \in 1..Len(revision_ids) : row[2].revision_id = revision_ids[i]})
    IN  IF Len(results) # Cardinality({revision_ids[i] : i \in 1..Len(revision_ids)})
        THEN [error |-> "ValueError", rows |-> <<>>]
        ELSE [error |-> "none", rows |-> results]

\* get_individual_revisions, called
get_individual_revisions_call(guild_id, revision_ids) ==
    /\ result' = [op |-> "get_individual_revisions", guild_id |-> guild_id,
                  revision_ids |-> revision_ids,
                  value |-> get_individual_revisions(pages, revisions, guild_id,
                                                     revision_ids)]
    /\ UNCHANGED <<pages, revisions, page_id_seq, revision_id_seq, pc, call>>
    /\ UNCHANGED perm_vars

\* the lists of ids requested: of stored revisions and of one id never drawn
RevisionIdLists == UNION {[1..n -> 1..(MaxRevisionId + 1)] : n \in 0..MaxIds}

\* the third revision: of the page of guild 1, of the page of guild 2, or not
\* written yet
ThirdRevisionOf == {NULL, 1, 2}

\* a page "a" in each of two guilds, created in turn, and a revise_page of
\* one of them
RevisionsInit ==
    \E third \in ThirdRevisionOf :
        /\ pages = {[page_id |-> 1, guild |-> 1, title |-> "a",
                     latest_revision |-> IF third = 1 THEN 3 ELSE 1],
                    [page_id |-> 2, guild |-> 2, title |-> "a",
                     latest_revision |-> IF third = 2 THEN 3 ELSE 2]}
        /\ revisions = {InsertRevision(1, 7, "x", 1), InsertRevision(2, 7, "x", 2)}
                \cup (IF third = NULL THEN {} ELSE {InsertRevision(third, 7, "y", 3)})
        /\ page_id_seq = 2
        /\ revision_id_seq = IF third = NULL THEN 2 ELSE 3
        /\ pc = [p \in Procs |-> "idle"]
        /\ call = [p \in Procs |-> NoCall]
        /\ result = [op |-> "create_page", value |-> "ok"]
        /\ role_permissions = {}
        /\ page_permissions = {}
        /\ perm_ret = NoReturn

RevisionsNext ==
    \E g \in Guilds, ids \in RevisionIdLists : get_individual_revisions_call(g, ids)

SpecRevisions == RevisionsInit /\ [][RevisionsNext]_vars

\* revision id i is of a revision of a page of guild g
Resolves(g, i) ==
    \E rv \in revisions, pg \in pages :
        rv.revision_id = i /\ pg.page_id = rv.page_id /\ pg.guild = g

\* C15: a call get_individual_revisions(guild, ids) raises ValueError,
\* returning no row, exactly when some requested id is not the id of a revision of a page
\* of the guild; otherwise it returns one row for each distinct requested id,
\* repeated ids or not, in ascending revision id order.
C15_IndividualRevisions ==
    [][result'.op = "get_individual_revisions" =>
             LET g == result'.guild_id
                 ids == result'.revision_ids
                 v == result'.value
                 asked == {ids[i] : i \in 1..Len(ids)}
             IN  /\ v.error = "ValueError" <=> \E i \in asked : ~Resolves(g, i)
                 /\ v.error = "ValueError" => v.rows = <<>>
                 /\ v.error # "ValueError" =>
                       /\ v.error = "none"
                       /\ Len(v.rows) = Cardinality(asked)
                       /\ {v.rows[n][2].revision_id : n \in 1..Len(v.rows)} = asked
                       /\ \A n \in 1..Len(v.rows) :
                             /\ v.rows[n][1].guild = g
                             /\ v.rows[n][2] \in revisions
                             /\ v.rows[n][1] \in pages
                       /\ \A n \in 1..(Len(v.rows) - 1) :
                             v.rows[n][2].revision_id < v.rows[n + 1][2].revision_id]_vars

\* the ids 3, 1, 3 were requested in guild 1 and the revisions 1 and 3 came
\* back in that order
C15_Witness ==
    /\ result.op = "get_individual_revisions"
    /\ result.guild_id = 1
    /\ result.revision_ids = <<3, 1, 3>>
    /\ result.value.error = "none"
    /\ Len(result.value.rows) = 2
    /\ result.value.rows[1][2].revision_id = 1
    /\ result.value.rows[2][2].revision_id = 3

-----------------------------------------------------------------------------
(* Properties of the permission operations *)

\* the mask stored for role_id, or NULL without a row
StoredMask(rp, role_id) ==
    bit_or({r.permissions : r \in {x \in rp : x.role = role_id}})

\* C16 as stated: after allow_role_permissions(role, extra) the mask stored
\* for the role holds every bit of DEFAULT and every bit of extra, whatever
\* the role's row was before.
C16_Stated ==
    [][\A r \in GrantRoles :
          allow_role_permissions(r, delete) =>
             /\ StoredMask(role_permissions', r) # NULL
             /\ BitAnd(StoredMask(role_permissions', r), BitOr(default, delete))
                   = BitOr(default, delete)]_vars

\* C16 amended: after allow_role_permissions(role, extra) the role has a row
\* whose mask is extra ORed with the permissions the role had before: the
\* mask of its row, or DEFAULT when it had no row (DEFAULT bits cleared from
\* an existing row stay cleared); the rows of other roles are unchanged.
C16_AllowKeepsCleared ==
    [][\A r \in GrantRoles :
          allow_role_permissions(r, delete) =>
             /\ StoredMask(role_permissions', r)
                   = BitOr(get_role_permissions(role_permissions, r), delete)
             /\ {x \in role_permissions' : x.role # r}
                   = {x \in role_permissions : x.role # r}]_vars

\* role 11, set to {view}, has been allowed delete: its mask is {view, delete},
\* without rename and edit
C16_Witness ==
    /\ [role |-> 11, permissions |-> BitOr(view, delete)] \in role_permissions
    /\ perm_ret = NoReturn

\* C17 as stated: after deny_role_permissions(role, mask),
\* get_role_permissions(role) is what it was before with the bits of mask
\* cleared, whether the role had a row or not, and a row that was present is
\* still present.
C17_Stated ==
    [][\A r \in GrantRoles :
          deny_role_permissions(r, edit) =>
             /\ get_role_permissions(role_permissions', r)
                   = BitAndNot(get_role_permissions(role_permissions, r), edit)
             /\ StoredMask(role_permissions, r) # NULL
                   => StoredMask(role_permissions', r) # NULL]_vars

\* role 11 has no row while another role has one: get_role_permissions gives
\* it DEFAULT, edit included, and the UPDATE of deny_role_permissions finds
\* no row to change
C17_Witness ==
    /\ StoredMask(role_permissions, 11) = NULL
    /\ StoredMask(role_permissions, 1) # NULL
    /\ get_role_permissions(role_permissions, 11) = 7
    /\ BitAnd(get_role_permissions(role_permissions, 11), edit) = edit

\* C18 as stated: unset_page_permissions(page, role, mask) clears the bits
\* of mask from allow and deny of the (page, role) row; every other row of
\* page_permissions is as it was, and no row is deleted.
C18_Stated ==
    [][\A k \in OverwriteKeys :
          unset_page_permissions(1, k[1], k[2], edit) =>
             LET page_id == SelectPageId(pages, 1, k[1])
                 Target(o) == page_id # NULL /\ o.page_id = page_id /\ o.role = k[2]
             IN  /\ {o \in page_permissions' : ~Target(o)}
                       = {o \in page_permissions : ~Target(o)}
                 /\ {o \in page_permissions' : Target(o)}
                       = {[o EXCEPT !.allow = BitAndNot(o.allow, edit),
                                    !.deny = BitAndNot(o.deny, edit)] :
                             o \in {x \in page_permissions : Target(x)}}]_vars

\* edit is denied to role 1 on page 1 and to role 11 on page 2: an
\* unset_page_permissions of edit for either pair clears it for both
C18_Witness ==
    /\ page_permissions = {[page_id |-> 1, role |-> 1, allow |-> none, deny |-> edit],
                           [page_id |-> 2, role |-> 11, allow |-> none, deny |-> edit]}
    /\ \A k \in {<<"A", 1>>, <<"b", 11>>} :
          ENABLED (/\ unset_page_permissions(1, k[1], k[2], edit)
                   /\ \A o \in page_permissions' : o.deny = none)

\* C19 as stated: unset_page_overwrites(page, role) returns normally and
\* deletes the (page, role) row of page_permissions and no other row.
C19_Stated ==
    [][\A k \in OverwriteKeys :
          unset_page_overwrites(1, k[1], k[2]) =>
             LET page_id == SelectPageId(pages, 1, k[1])
             IN  /\ perm_ret'.error = "none"
                 /\ page_permissions' =
                       {o \in page_permissions :
                           ~(page_id # NULL /\ o.page_id = page_id /\ o.role = k[2])}]_vars

\* unset_page_overwrites has just raised, and page 1 still has an overwrite
\* row
C19_Witness ==
    /\ perm_ret = [op |-> "unset_page_overwrites", error |-> "PostgresError",
                   value |-> NULL]
    /\ \E o \in page_permissions : o.page_id = 1

-----------------------------------------------------------------------------
(* cursor: the lazy queries *)

\* a caller that iterates nothing: no generator, no connection
NoCursor == [op |-> "none", left |-> 0, conn |-> "released"]

\* the number of rows the query of op yields on the committed tables; the
\* rows of search_pages (title % $2) and of get_recent_revisions (revised > $2)
\* are any of the guild's
CursorRows(op, guild_id, title) ==
    CASE op = "get_page_revisions" ->
            {Len(get_page_revisions(pages, revisions, guild_id, title))}
      [] op = "get_all_pages" -> {Len(get_all_pages(pages, revisions, guild_id))}
      [] op = "search_pages" -> 0..Len(get_all_pages(pages, revisions, guild_id))
      [] op = "get_recent_revisions" ->
            0..Cardinality({rv \in revisions : \E pg \in pages :
                               pg.page_id = rv.page_id /\ pg.guild = guild_id})

CursorOps == {"get_page_revisions", "get_all_pages", "search_pages",
              "get_recent_revisions"}

\* the first pull: cursor() acquires a connection, starts a transaction and
\* opens the cursor; with no row the generator ends and the connection is
\* released, else it is suspended at its yield
cursor_open(p, op, guild_id, title) ==
    /\ pc[p] = "idle"
    /\ \E n \in CursorRows(op, guild_id, title) :
          IF n = 0
          THEN /\ Return(op, "exhausted")
               /\ UNCHANGED <<pc, call>>
          ELSE /\ pc' = [pc EXCEPT ![p] = "iterating"]
               /\ call' = [call EXCEPT ![p] =
                              [op |-> op, left |-> n - 1, conn |-> "borrowed"]]
               /\ UNCHANGED result
    /\ UNCHANGED <<pages, revisions, page_id_seq, revision_id_seq>>
    /\ UNCHANGED perm_vars

\* a further pull: the next row, or the end of the rows, where the async with
\* block is left and the connection released
cursor_pull(p) ==
    /\ pc[p] = "iterating"
    /\ IF call[p].left = 0
       THEN /\ pc' = [pc EXCEPT ![p] = "idle"]
            /\ call' = [call EXCEPT ![p] = NoCursor]
            /\ Return(call[p].op, "exhausted")
       ELSE /\ call' = [call EXCEPT ![p].left = @ - 1]
            /\ UNCHANGED <<pc, result>>
    /\ UNCHANGED <<pages, revisions, page_id_seq, revision_id_seq>>
    /\ UNCHANGED perm_vars

\* a pull on which the store raises: the exception leaves the async with
\* block, which releases the connection, and reaches the consumer
cursor_error(p) ==
    /\ pc[p] = "iterating"
    /\ pc' = [pc EXCEPT ![p] = "idle"]
    /\ call' = [call EXCEPT ![p] = NoCursor]
    /\ Return(call[p].op, "Error")
    /\ UNCHANGED <<pages, revisions, page_id_seq, revision_id_seq>>
    /\ UNCHANGED perm_vars

\* the consumer leaves its async for (break, return, an exception of its
\* own): nothing closes the generators, which stay suspended at their yield
cursor_abandoned(p) ==
    /\ pc[p] = "iterating"
    /\ pc' = [pc EXCEPT ![p] = "abandoned"]
    /\ Return(call[p].op, "abandoned")
    /\ UNCHANGED <<pages, revisions, page_id_seq, revision_id_seq, call>>
    /\ UNCHANGED perm_vars

\* the event loop finalizes the unreferenced generator of the operation
\* (aclose): GeneratorExit at `yield row`; the generator of cursor() it was
\* iterating is left suspended and unreferenced
asyncgen_finalize_outer(p) ==
    /\ pc[p] = "abandoned"
    /\ pc' = [pc EXCEPT ![p] = "orphaned"]
    /\ UNCHANGED <<pages, revisions, page_id_seq, revision_id_seq, call, result>>
    /\ UNCHANGED perm_vars

\* (variant: the generator of cursor() is never finalized)
asyncgen_finalize_cursor_never(p) ==
    /\ pc[p] = "orphaned"
    /\ UNCHANGED vars

\* the event loop finalizes the generator of cursor(): GeneratorExit at its
\* yield leaves the async with block, which releases the connection
asyncgen_finalize_cursor(p) ==
    /\ pc[p] = "orphaned"
    /\ pc' = [pc EXCEPT ![p] = "idle"]
    /\ call' = [call EXCEPT ![p] = NoCursor]
    /\ Return(call[p].op, "finalized")
    /\ UNCHANGED <<pages, revisions, page_id_seq, revision_id_seq>>
    /\ UNCHANGED perm_vars

\* two pages of guild 1, one of them revised; no page in guild 2
CursorInit ==
    /\ pages = {[page_id |-> 1, guild |-> 1, title |-> "a", latest_revision |-> 3],
                [page_id |-> 2, guild |-> 1, title |-> "b", latest_revision |-> 2]}
    /\ revisions = {InsertRevision(1, 7, "x", 1), InsertRevision(2, 7, "y", 2),
                    InsertRevision(1, 7, "y", 3)}
    /\ page_id_seq = 2
    /\ revision_id_seq = 3
    /\ pc = [p \in Procs |-> "idle"]
    /\ call = [p \in Procs |-> NoCursor]
    /\ result = [op |-> "none", value |-> "none"]
    /\ role_permissions = {}
    /\ page_permissions = {}
    /\ perm_ret = NoReturn

CursorNext ==
    \E p \in Procs :
        \/ \E op \in CursorOps, g \in Guilds, t \in PermTitles : cursor_open(p, op, g, t)
        \/ cursor_pull(p)
        \/ cursor_error(p)
        \/ cursor_abandoned(p)
        \/ asyncgen_finalize_outer(p)
        \/ asyncgen_finalize_cursor(p)

\* the event loop runs the aclose() task of every generator it finalizes
CursorFairness ==
    \A p \in Procs :
        /\ WF_vars(asyncgen_finalize_outer(p))
        /\ WF_vars(asyncgen_finalize_cursor(p))

SpecCursor == CursorInit /\ [][CursorNext]_vars /\ CursorFairness

-----------------------------------------------------------------------------
(* Properties of rename_page and of unresolved titles *)

\* C21: a rename_page(old, new) that succeeds changes the title of the one
\* page old resolves to and nothing else: no revision is added or changed,
\* every other page row is as before, the renamed row keeps its page_id, guild
\* and latest_revision, get_page(new) returns what get_page(old) returned and
\* get_page_revisions(new) what get_page_revisions(old) returned; and a rename
\* to another spelling of the page's own title succeeds.
C21_RenameFrame ==
    [][\A p \in Caller, k \in GuildKeys :
          LET target == {r \in pages : TitleMatch(r, k[1], k[2])}
          IN  (/\ result'.op = "rename_page" /\ pc' = pc
               /\ pc[p] = "idle" /\ target # {}) =>
                \A nt \in Titles :
                   rename_page(p, k[1], k[2], nt) =>
                      /\ LOWER(nt) = LOWER(k[2]) => result'.value = "ok"
                      /\ result'.value = "ok" =>
                            /\ revisions' = revisions
                            /\ Cardinality(target) = 1
                            /\ pages' = (pages \ target)
                                  \cup {[r EXCEPT !.title = nt] : r \in target}
                            /\ get_page(pages', revisions', k[1], nt)
                                  = get_page(pages, revisions, k[1], k[2])
                            /\ get_page_revisions(pages', revisions', k[1], nt)
                                  = get_page_revisions(pages, revisions, k[1], k[2])]_vars

\* a page of two revisions, in a guild that holds another page too, has just
\* been renamed to the other spelling of its own title
C21_Witness ==
    /\ result = [op |-> "rename_page", value |-> "ok"]
    /\ \E pg \in pages, o \in pages :
          /\ pg.title = "A"
          /\ o.guild = pg.guild /\ o.page_id # pg.page_id
          /\ Cardinality({rv \in revisions : rv.page_id = pg.page_id}) = 2

\* the title resolves to no page of the guild
Unresolved(guild_id, title) ==
    ~\E r \in pages : r.guild = guild_id /\ LOWER(r.title) = LOWER(title)

\* C22: when a title resolves, case-insensitively and within the guild, to no
\* page (a page of that title in another guild does not count), get_page
\* fails with PageNotFoundError, and revise_page and rename_page return
\* PageNotFoundError, open no transaction and leave pages and revisions as
\* they were.
C22_NotFound ==
    /\ [](\A k \in GuildKeys :
             Unresolved(k[1], k[2])
             => get_page(pages, revisions, k[1], k[2]) = "PageNotFoundError")
    /\ [][\A p \in Caller, k \in GuildKeys :
             (pc[p] = "idle" /\ pc' = pc /\ Unresolved(k[1], k[2])) =>
                /\ \A c \in Contents, a \in Authors :
                      revise_page_select(p, k[2], c, k[1], a)
                      => /\ result' = [op |-> "revise_page",
                                       value |-> "PageNotFoundError"]
                         /\ pages' = pages /\ revisions' = revisions
                         /\ call' = call
                /\ \A nt \in Titles :
                      rename_page(p, k[1], k[2], nt)
                      => /\ result' = [op |-> "rename_page",
                                       value |-> "PageNotFoundError"]
                         /\ pages' = pages /\ revisions' = revisions]_vars

\* revise_page has just failed with PageNotFoundError while guild 1 holds
\* pages under both titles and guild 2 holds none, and get_page fails in
\* guild 2 for a title of guild 1
C22_Witness ==
    /\ result = [op |-> "revise_page", value |-> "PageNotFoundError"]
    /\ \A r \in pages : r.guild = 1
    /\ \E r \in pages, o \in pages : r.title = "A" /\ o.title = "b"
    /\ get_page(pages, revisions, 1, "a") # "PageNotFoundError"
    /\ get_page(pages, revisions, 2, "a") = "PageNotFoundError"

-----------------------------------------------------------------------------
(* One permission operation, repeated with the same arguments, from any rows *)

\* the call that is repeated
PermCall(op, role_id, title, a, d) ==
    [op |-> op, role_id |-> role_id, title |-> title, a |-> a, d |-> d]

PermCalls ==
    {PermCall("set_role_permissions", r, "", m, none) : r \in Roles, m \in RoleMasks}
    \cup {PermCall("allow_role_permissions", r, "", delete, none) : r \in Roles}
    \cup {PermCall("deny_role_permissions", r, "", edit, none) : r \in Roles}
    \cup {PermCall("set_page_overwrites", k[2], k[1], a, d) :
             k \in OverwriteKeys, a \in AllowMasks, d \in DenyMasks}
    \cup {PermCall("unset_page_overwrites", k[2], k[1], none, none) : k \in OverwriteKeys}
    \cup {PermCall("add_page_permissions", k[2], k[1], delete, none) : k \in OverwriteKeys}
    \cup {PermCall("add_page_permissions", k[2], k[1], none, edit) : k \in OverwriteKeys}
    \cup {PermCall("unset_page_permissions", k[2], k[1], edit, none) : k \in OverwriteKeys}

\* role_permissions tables: role is the primary key, a role has one row or none
StartRoleMasks == {none, view, BitOr(view, edit), BitOr(edit, delete)}
StartRolePermissions ==
    {{[role |-> r, permissions |-> f[r]] : r \in {x \in Roles : f[x] # NULL}} :
        f \in [Roles -> StartRoleMasks \cup {NULL}]}

\* page_permissions tables: (page_id, role) is the primary key
StartOverwriteKeys == {<<1, 1>>, <<1, 11>>, <<2, 11>>}
StartOverwrites == {<<none, none>>, <<delete, none>>, <<edit, edit>>, <<delete, edit>>}
StartPagePermissions ==
    {{[page_id |-> k[1], role |-> k[2], allow |-> f[k][1], deny |-> f[k][2]] :
         k \in {x \in StartOverwriteKeys : f[x] # <<>>}} :
        f \in [StartOverwriteKeys -> StartOverwrites \cup {<<>>}]}

\* nothing has been called yet
NotCalled == [op |-> "none", error |-> "not called", value |-> NULL]

RepeatInit ==
    /\ pages = {[page_id |-> 1, guild |-> 1, title |-> "a", latest_revision |-> 1],
                [page_id |-> 2, guild |-> 1, title |-> "b", latest_revision |-> 2]}
    /\ revisions = {[revision_id |-> 1, page_id |-> 1, author |-> 7, content |-> "x"],
                    [revision_id |-> 2, page_id |-> 2, author |-> 7, content |-> "y"]}
    /\ page_id_seq = 2
    /\ revision_id_seq = 2
    /\ pc = [p \in Procs |-> "idle"]
    /\ \E c \in PermCalls : call = [p \in Procs |-> c]
    /\ result = [op |-> "create_page", value |-> "ok"]
    /\ role_permissions \in StartRolePermissions
    /\ page_permissions \in StartPagePermissions
    /\ perm_ret = NotCalled

\* the call is made, again and again
RepeatNext ==
    LET c == call[1]
    IN  \/ c.op = "set_role_permissions" /\ set_role_permissions(c.role_id, c.a)
        \/ c.op = "allow_role_permissions" /\ allow_role_permissions(c.role_id, c.a)
        \/ c.op = "deny_role_permissions" /\ deny_role_permissions(c.role_id, c.a)
        \/ c.op = "set_page_overwrites"
              /\ set_page_overwrites(1, c.title, c.role_id, c.a, c.d)
        \/ c.op = "unset_page_overwrites"
              /\ unset_page_overwrites(1, c.title, c.role_id)
        \/ c.op = "add_page_permissions"
              /\ add_page_permissions(1, c.title, c.role_id, c.a, c.d)
        \/ c.op = "unset_page_permissions"
              /\ unset_page_permissions(1, c.title, c.role_id, c.a)

SpecRepeat == RepeatInit /\ [][RepeatNext]_vars

\* C23: each of set_role_permissions, allow_role_permissions,
\* deny_role_permissions, set_page_overwrites, add_page_permissions,
\* unset_page_permissions and unset_page_overwrites, made a second time with
\* the arguments of the first call, leaves every row of role_permissions and
\* page_permissions as the first call left it, whatever rows it started from.
C23_Idempotent ==
    [][perm_ret # NotCalled =>
          /\ role_permissions' = role_permissions
          /\ page_permissions' = page_permissions]_vars

\* allow_role_permissions(11, delete) has been called where role 11 had no
\* row and role 1 had one: the row it inserted is there
C23_Witness ==
    /\ perm_ret = NoReturn
    /\ call[1] = PermCall("allow_role_permissions", 11, "", delete, none)
    /\ [role |-> 11, permissions |-> BitOr(delete, default)] \in role_permissions
    /\ [role |-> 1, permissions |-> view] \in role_permissions

-----------------------------------------------------------------------------
(* Pages: the paginator's reaction loop and its first-page task *)

\* the entries of the paginator number up to MaxEntries
MaxEntries == 3
\* per_page, as passed by the callers
PerPage == {1, 2}

\* pc and call are indexed by the coroutine of begin() and by the task of
\* show_page(1, first=True); call holds the Pages object for the first and
\* the event loop's queue of ready callbacks for the second
BeginTask == 1
FirstPageTask == 2

\* Pages.__init__: self.message is the message that invoked the command;
\* current_page is not assigned
Pages(entries, per_page) ==
    LET left_over == entries % per_page
        whole == entries \div per_page
    IN  [message |-> "ctx.message",
         maximum_pages |-> IF left_over # 0 THEN whole + 1 ELSE whole,
         paginating |-> entries > per_page,
         current_page |-> NULL,
         match |-> "none",
         reply |-> NULL]

\* the values of reaction_emojis, by name
Handlers == {"stop", "first_page", "previous_page", "next_page", "last_page",
             "numbered_page", "show_help"}
\* the emoji of a reaction: a key of reaction_emojis, or another emoji
Emojis == Handlers \cup {"other"}
ReactionUsers == {"author", "someone"}
ReactionMessages == {"ctx.message", "sent", "elsewhere"}

\* loop.create_task, call_soon, a future's wake-up: the callback joins the
\* end of the loop's ready queue
Ready(loop, task) == [loop EXCEPT !.ready = Append(@, task)]
\* the loop runs the callback at the head of the queue
Ran(loop) == [loop EXCEPT !.ready = Tail(@)]
Runs(task) ==
    /\ call[FirstPageTask].ready # <<>>
    /\ Head(call[FirstPageTask].ready) = task

\* show_page(page), not first, on a paginating Pages: current_page is
\* assigned, then self.message is edited; the message that invoked the
\* command is another user's and the edit is refused
show_page(self, page) ==
    [self |-> [self EXCEPT !.current_page = page],
     error |-> IF self.paginating /\ self.message = "ctx.message"
               THEN "Forbidden" ELSE "none"]

\* what the handler finds when it is awaited
Found(self) == [current_page |-> self.current_page, message |-> self.message]

\* await self.match(): the handler, up to its return or its first wait for
\* the user; reading an unassigned current_page raises AttributeError
match(self) ==
    CASE self.match = "stop" ->
            [self |-> [self EXCEPT !.paginating = FALSE], error |-> "none"]
      [] self.match = "first_page" -> show_page(self, 1)
      [] self.match = "last_page" -> show_page(self, self.maximum_pages)
      [] self.match = "next_page" ->
            IF self.current_page = NULL
            THEN [self |-> self, error |-> "AttributeError"]
            ELSE IF self.current_page + 1 <= self.maximum_pages
            THEN show_page(self, self.current_page + 1)
            ELSE [self |-> self, error |-> "none"]
      [] self.match = "previous_page" ->
            IF self.current_page = NULL
            THEN [self |-> self, error |-> "AttributeError"]
            ELSE IF self.current_page - 1 # 0
            THEN show_page(self, self.current_page - 1)
            ELSE [self |-> self, error |-> "none"]
      [] self.match = "show_help" ->
            IF self.current_page = NULL
            THEN [self |-> self, error |-> "AttributeError"]
            ELSE [self |-> self,
                  error |-> IF self.message = "ctx.message"
                            THEN "Forbidden" ELSE "none"]
      [] self.match = "numbered_page" -> [self |-> self, error |-> "none"]

\* begin(), up to its first suspension: not paginating, show_page is awaited
\* in place and suspends in channel.send; paginating, it becomes a task and
\* begin suspends in wait_for with react_check listening
begin ==
    /\ pc[BeginTask] = "begin"
    /\ Runs("begin")
    /\ IF ~call[BeginTask].paginating
       THEN /\ pc' = [pc EXCEPT ![BeginTask] = "send"]
            /\ call' = [call EXCEPT ![BeginTask].current_page = 1,
                                    ![FirstPageTask] = Ran(@)]
       ELSE /\ pc' = [pc EXCEPT ![BeginTask] = "wait_for",
                                ![FirstPageTask] = "created"]
            /\ call' = [call EXCEPT ![FirstPageTask] = Ready(Ran(@), "first_page")]
    /\ UNCHANGED <<pages, revisions, page_id_seq, revision_id_seq, result>>
    /\ UNCHANGED perm_vars

\* not paginating: channel.send returns, show_page returns its message and
\* the while loop is not entered
begin_returns ==
    /\ pc[BeginTask] = "send"
    /\ pc' = [pc EXCEPT ![BeginTask] = "returned"]
    /\ Return("begin", Found(call[BeginTask]))
    /\ UNCHANGED <<pages, revisions, page_id_seq, revision_id_seq, call>>
    /\ UNCHANGED perm_vars

\* the task of show_page(1, first=True), first step: self.current_page = page,
\* then it suspends in channel.send
show_page_first ==
    /\ pc[FirstPageTask] = "created"
    /\ Runs("first_page")
    /\ pc' = [pc EXCEPT ![FirstPageTask] = "send"]
    /\ call' = [call EXCEPT ![BeginTask].current_page = 1,
                            ![FirstPageTask] = Ran(@)]
    /\ UNCHANGED <<pages, revisions, page_id_seq, revision_id_seq, result>>
    /\ UNCHANGED perm_vars

\* the response to channel.send arrives: the task is ready again
channel_send_done ==
    /\ pc[FirstPageTask] = "send"
    /\ pc' = [pc EXCEPT ![FirstPageTask] = "sent"]
    /\ call' = [call EXCEPT ![FirstPageTask] = Ready(@, "first_page")]
    /\ UNCHANGED <<pages, revisions, page_id_seq, revision_id_seq, result>>
    /\ UNCHANGED perm_vars

\* the task resumes: self.message = the message sent; add_reactions becomes
\* a task of its own
show_page_first_resumes ==
    /\ pc[FirstPageTask] = "sent"
    /\ Runs("first_page")
    /\ pc' = [pc EXCEPT ![FirstPageTask] = "done"]
    /\ call' = [call EXCEPT ![BeginTask].message = "sent",
                            ![FirstPageTask] = Ran(@)]
    /\ UNCHANGED <<pages, revisions, page_id_seq, revision_id_seq, result>>
    /\ UNCHANGED perm_vars

\* react_check(reaction, user)
react_check(self, message, user, emoji) ==
    /\ user = "author"
    /\ message = self.message
    /\ emoji \in Handlers

\* the gateway dispatches reaction_add while wait_for listens: react_check
\* decides; accepted, it has assigned self.match and begin is ready again.
\* A reaction on the message sent can arrive once the send has been issued.
reaction_add(message, user, emoji) ==
    /\ pc[BeginTask] = "wait_for"
    /\ message = "sent" => pc[FirstPageTask] \in {"send", "sent", "done"}
    /\ IF react_check(call[BeginTask], message, user, emoji)
       THEN /\ pc' = [pc EXCEPT ![BeginTask] = "accepted"]
            /\ call' = [call EXCEPT ![BeginTask].match = emoji,
                                    ![FirstPageTask] = Ready(@, "begin")]
       ELSE UNCHANGED <<pc, call>>
    /\ UNCHANGED <<pages, revisions, page_id_seq, revision_id_seq, result>>
    /\ UNCHANGED perm_vars

\* begin resumes from wait_for and suspends in asyncio.sleep(0.2)
begin_sleep ==
    /\ pc[BeginTask] = "accepted"
    /\ Runs("begin")
    /\ pc' = [pc EXCEPT ![BeginTask] = "sleep"]
    /\ call' = [call EXCEPT ![FirstPageTask] = Ran(@)]
    /\ UNCHANGED <<pages, revisions, page_id_seq, revision_id_seq, result>>
    /\ UNCHANGED perm_vars

\* the sleep is over
sleep_done ==
    /\ pc[BeginTask] = "sleep"
    /\ pc' = [pc EXCEPT ![BeginTask] = "slept"]
    /\ call' = [call EXCEPT ![FirstPageTask] = Ready(@, "begin")]
    /\ UNCHANGED <<pages, revisions, page_id_seq, revision_id_seq, result>>
    /\ UNCHANGED perm_vars

\* begin resumes and suspends in self.message.remove_reaction
begin_remove_reaction ==
    /\ pc[BeginTask] = "slept"
    /\ Runs("begin")
    /\ pc' = [pc EXCEPT ![BeginTask] = "remove_reaction"]
    /\ call' = [call EXCEPT ![FirstPageTask] = Ran(@)]
    /\ UNCHANGED <<pages, revisions, page_id_seq, revision_id_seq, result>>
    /\ UNCHANGED perm_vars

\* the response to remove_reaction arrives (an HTTPException is suppressed)
remove_reaction_done ==
    /\ pc[BeginTask] = "remove_reaction"
    /\ pc' = [pc EXCEPT ![BeginTask] = "removed"]
    /\ call' = [call EXCEPT ![FirstPageTask] = Ready(@, "begin")]
    /\ UNCHANGED <<pages, revisions, page_id_seq, revision_id_seq, result>>
    /\ UNCHANGED perm_vars

\* begin resumes: await self.match(). The handler raises out of begin, or
\* ends the loop (stop), or returns to wait_for; numbered_page waits for the
\* author's message first
begin_match ==
    /\ pc[BeginTask] = "removed"
    /\ Runs("begin")
    /\ LET self == call[BeginTask]
           out == match(self)
       IN  /\ pc' = [pc EXCEPT ![BeginTask] =
                       IF out.error # "none" THEN "raised"
                       ELSE IF self.match = "numbered_page" THEN "numbered_page"
                       ELSE IF out.self.paginating THEN "wait_for"
                       ELSE "returned"]
           /\ call' = [call EXCEPT ![BeginTask] = out.self,
                                   ![FirstPageTask] = Ran(@)]
           /\ result' = [op |-> self.match, value |-> Found(self),
                         error |-> out.error]
    /\ UNCHANGED <<pages, revisions, page_id_seq, revision_id_seq>>
    /\ UNCHANGED perm_vars

\* numbered_page: the author names a page, or 30 seconds pass (NULL)
numbered_page_reply(page) ==
    /\ pc[BeginTask] = "numbered_page"
    /\ pc' = [pc EXCEPT ![BeginTask] = "numbered_reply"]
    /\ call' = [call EXCEPT ![BeginTask].reply = page,
                            ![FirstPageTask] = Ready(@, "begin")]
    /\ UNCHANGED <<pages, revisions, page_id_seq, revision_id_seq, result>>
    /\ UNCHANGED perm_vars

\* numbered_page resumes: show_page(page) for a page that exists
numbered_page_resumes ==
    /\ pc[BeginTask] = "numbered_reply"
    /\ Runs("begin")
    /\ LET self == call[BeginTask]
           page == self.reply
           out == IF page # NULL /\ page # 0 /\ page <= self.maximum_pages
                  THEN show_page(self, page)
                  ELSE [self |-> self, error |-> "none"]
       IN  /\ pc' = [pc EXCEPT ![BeginTask] =
                       IF out.error # "none" THEN "raised" ELSE "wait_for"]
           /\ call' = [call EXCEPT ![BeginTask] = [out.self EXCEPT !.reply = NULL],
                                   ![FirstPageTask] = Ran(@)]
           /\ result' = [op |-> "show_page", value |-> Found(self),
                         error |-> out.error]
    /\ UNCHANGED <<pages, revisions, page_id_seq, revision_id_seq>>
    /\ UNCHANGED perm_vars

\* wait_for times out
wait_for_timeout ==
    /\ pc[BeginTask] = "wait_for"
    /\ pc' = [pc EXCEPT ![BeginTask] = "timed_out"]
    /\ call' = [call EXCEPT ![FirstPageTask] = Ready(@, "begin")]
    /\ UNCHANGED <<pages, revisions, page_id_seq, revision_id_seq, result>>
    /\ UNCHANGED perm_vars

\* asyncio.TimeoutError: stop(delete=self.delete_message_on_timeout), break
begin_timed_out ==
    /\ pc[BeginTask] = "timed_out"
    /\ Runs("begin")
    /\ pc' = [pc EXCEPT ![BeginTask] = "returned"]
    /\ call' = [call EXCEPT ![BeginTask].paginating = FALSE,
                            ![FirstPageTask] = Ran(@)]
    /\ result' = [op |-> "timeout", value |-> Found(call[BeginTask]),
                  error |-> "none"]
    /\ UNCHANGED <<pages, revisions, page_id_seq, revision_id_seq>>
    /\ UNCHANGED perm_vars

\* a Pages has been constructed and begin() is about to run
PagesInit ==
    /\ pages = {}
    /\ revisions = {}
    /\ page_id_seq = 0
    /\ revision_id_seq = 0
    /\ pc = [p \in Procs |-> IF p = BeginTask THEN "begin" ELSE "none"]
    /\ \E entries \in 0..MaxEntries, per_page \in PerPage :
          call = [p \in Procs |-> IF p = BeginTask THEN Pages(entries, per_page)
                                  ELSE [ready |-> <<"begin">>]]
    /\ result = [op |-> "none", value |-> "none", error |-> "none"]
    /\ role_permissions = {}
    /\ page_permissions = {}
    /\ perm_ret = NoReturn

PagesNext ==
    \/ begin
    \/ begin_returns
    \/ show_page_first
    \/ channel_send_done
    \/ show_page_first_resumes
    \/ \E m \in ReactionMessages, u \in ReactionUsers, e \in Emojis :
          reaction_add(m, u, e)
    \/ begin_sleep
    \/ sleep_done
    \/ begin_remove_reaction
    \/ remove_reaction_done
    \/ begin_match
    \/ \E page \in {NULL} \cup 0..(MaxEntries + 1) : numbered_page_reply(page)
    \/ numbered_page_resumes
    \/ wait_for_timeout
    \/ begin_timed_out

SpecPages == PagesInit /\ [][PagesNext]_vars

\* C24: whenever begin awaits a handler (stop, first_page, previous_page,
\* next_page, last_page, numbered_page, show_help), the first page has been
\* shown: current_page is assigned and self.message is the message the
\* paginator sent, not the message that invoked the command.
C24_Stated ==
    result.op \in Handlers =>
        /\ result.value.current_page # NULL
        /\ result.value.message = "sent"

\* next_page has been awaited while self.message was still the message that
\* invoked the command, and its edit was refused
C24_Witness ==
    /\ result.op = "next_page"
    /\ result.value = [current_page |-> 1, message |-> "ctx.message"]
    /\ result.error = "Forbidden"
    /\ pc[FirstPageTask] = "send"

\* the task of the first page is queued before begin suspends and the loop
\* runs its callbacks in the order queued: whenever begin awaits a handler,
\* current_page is assigned
HandlerFindsCurrentPage ==
    result.op \in Handlers => result.value.current_page # NULL

-----------------------------------------------------------------------------
(* optional_connection: the connection context variable *)

\* the connections of the pool
PoolSize == 2
\* wrapped functions call wrapped functions, to this depth
MaxDepth == 2

\* a task's context: the value of the connection variable (NULL while a get()
\* raises LookupError) and, for each running call of inner, the connection
\* it acquired (NULL if it acquired none)
NoContext == [connection |-> NULL, frames |-> <<>>]

\* the connections the calls of task p have acquired and not released
Acquired(p) == {call[p].frames[i] : i \in 1..Len(call[p].frames)} \ {NULL}
\* the connections in the pool's queue
Free == (1..PoolSize) \ UNION {Acquired(p) : p \in Procs}

\* inner(): connection.get() raises LookupError and a connection is acquired
\* and set, or the variable is set and func runs with what it holds
inner(p) ==
    /\ Len(call[p].frames) < MaxDepth
    /\ IF call[p].connection = NULL
       THEN \E conn \in Free :
               /\ call' = [call EXCEPT ![p].connection = conn,
                                       ![p].frames = Append(@, conn)]
               /\ result' = [op |-> "func", value |-> conn, error |-> "none"]
       ELSE /\ call' = [call EXCEPT ![p].frames = Append(@, NULL)]
            /\ result' = [op |-> "func", value |-> call[p].connection,
                          error |-> IF call[p].connection \in Acquired(p)
                                    THEN "none" ELSE "InterfaceError"]
    /\ pc' = [pc EXCEPT ![p] = "func"]
    /\ UNCHANGED <<pages, revisions, page_id_seq, revision_id_seq>>
    /\ UNCHANGED perm_vars

\* func returns or raises: the async with block of the call that acquired
\* releases its connection; the variable is left as it was set
inner_returns(p) ==
    /\ call[p].frames # <<>>
    /\ call' = [call EXCEPT ![p].frames = SubSeq(@, 1, Len(@) - 1)]
    /\ pc' = [pc EXCEPT ![p] = IF Len(call[p].frames) = 1 THEN "idle" ELSE "func"]
    /\ result' = [op |-> "inner", value |-> call[p].connection, error |-> "none"]
    /\ UNCHANGED <<pages, revisions, page_id_seq, revision_id_seq>>
    /\ UNCHANGED perm_vars

\* the task ends and the next event is dispatched in a task of its own,
\* whose context is a copy of the loop's, where the variable is not set
create_task(p) ==
    /\ call[p].frames = <<>>
    /\ call[p].connection # NULL
    /\ call' = [call EXCEPT ![p] = NoContext]
    /\ result' = [op |-> "create_task", value |-> NULL, error |-> "none"]
    /\ UNCHANGED <<pages, revisions, page_id_seq, revision_id_seq, pc>>
    /\ UNCHANGED perm_vars

ConnectionInit ==
    /\ pages = {}
    /\ revisions = {}
    /\ page_id_seq = 0
    /\ revision_id_seq = 0
    /\ pc = [p \in Procs |-> "idle"]
    /\ call = [p \in Procs |-> NoContext]
    /\ result = [op |-> "none", value |-> NULL, error |-> "none"]
    /\ role_permissions = {}
    /\ page_permissions = {}
    /\ perm_ret = NoReturn

ConnectionNext ==
    \E p \in Procs :
        \/ inner(p)
        \/ inner_returns(p)
        \/ create_task(p)

SpecConnection == ConnectionInit /\ [][ConnectionNext]_vars

\* C25: while a function wrapped by optional_connection runs, the connection
\* held by the context variable is one that a running call of the same task
\* has acquired and not yet released to the pool.
C25_Stated ==
    \A p \in Procs :
        call[p].frames # <<>> => call[p].connection \in Acquired(p)

\* a task whose first wrapped call has returned makes a second one: it finds
\* the variable set to the connection released then, acquires nothing, and
\* the other task has since acquired that connection
C25_Witness ==
    \E p \in Procs, q \in Procs :
        /\ call[p].frames = <<NULL>>
        /\ result = [op |-> "func", value |-> call[p].connection,
                     error |-> "InterfaceError"]
        /\ call[p].connection \in Acquired(q)

====
